---- MODULE Spec2Model ----
(***************************************************************************)
(* A model of text_to_sql_pipeline.py: the Pipeline object (its valves,    *)
(* its stored SQLAlchemy engine), its hooks on_startup / on_shutdown /     *)
(* pipe, and the generator pipe returns.  The collaborators the file only  *)
(* calls (create_engine, SQLDatabase, NLSQLTableQueryEngine.query, the     *)
(* token generator) are the environment: whether a call returns or raises  *)
(* is a nondeterministic input of the action that makes the call.          *)
(***************************************************************************)
EXTENDS Integers, Sequences, FiniteSets, TLC

VARIABLES
    env,             \* the process environment read by os.getenv
    valves,          \* self.valves
    engine,          \* self.engine
    nlsql_response,  \* self.nlsql_response
    handles,         \* how many engines create_engine has returned so far
    startup,         \* how the latest on_startup call ended
    requests         \* one record per pipe call, in call order

vars == <<env, valves, engine, nlsql_response, handles, startup, requests>>

(* ------------------------------ bounds --------------------------------- *)

\* pipe calls per behaviour
MaxRequests == 2
\* fragments the model backend streams for one answer, at most
MaxFragments == 2
\* on_startup calls that return an engine, per behaviour
MaxStartups == 1

(* --------------------------- configuration ----------------------------- *)

None == "None"

\* os.getenv finds no such variable
Unset == "<unset>"

EnvVars == {"DB_HOST", "DB_PORT", "DB_USER", "DB_PASSWORD", "DB_DATABASE",
            "DB_TABLE", "OLLAMA_HOST", "TEXT_TO_SQL_MODEL"}

\* the fields class Valves declares
ValvesFields == {"DB_HOST", "DB_PORT", "DB_USER", "DB_PASSWORD", "DB_DATABASE",
                 "DB_TABLE", "OLLAMA_HOST", "TEXT_TO_SQL_MODEL"}

\* os.getenv(name), with no default
GetenvNoDefault(e, name, default) == e[name]

\* os.getenv(name, default)
Getenv(e, name, default) == IF e[name] = Unset THEN default ELSE e[name]

\* the dict __init__ passes to Valves(**{...}); "pipelines" is no field of
\* Valves ("*" stands for the list ["*"])
ValvesArgs(e) ==
    [pipelines         |-> "*",
     DB_HOST           |-> Getenv(e, "DB_HOST", "http://host.docker.internal"),
     DB_PORT           |-> Getenv(e, "DB_PORT", "5432"),
     DB_USER           |-> Getenv(e, "DB_USER", "postgres"),
     DB_PASSWORD       |-> Getenv(e, "DB_PASSWORD", "qwer5678"),
     DB_DATABASE       |-> Getenv(e, "DB_DATABASE", "testdb"),
     DB_TABLE          |-> Getenv(e, "DB_TABLE", "actor"),
     OLLAMA_HOST       |-> Getenv(e, "OLLAMA_HOST", "http://host.docker.internal:11434"),
     TEXT_TO_SQL_MODEL |-> Getenv(e, "TEXT_TO_SQL_MODEL", "llama2:latest")]

\* Valves(**kwargs): a pydantic model keeps its declared fields
Valves(kwargs) == [f \in ValvesFields |-> kwargs[f]]

(* ----------------------------- connection ------------------------------ *)

\* self.engine = None
NoEngine == [id |-> 0, url |-> <<>>]

\* the f-string of init_db_connection, part by part
ConnString(v) ==
    <<"postgresql+psycopg2://", v.DB_USER, ":", v.DB_PASSWORD, "@", v.DB_HOST,
      ":5432/", v.DB_DATABASE>>

\* the dialect name of an engine made from that connection string
Dialect(e) == IF e.url[1] = "postgresql+psycopg2://" THEN "postgresql" ELSE "unknown"

(* -------------------- the database and the backend --------------------- *)

\* the tables of the database the engine connects to
DbTables == {"actor", "film", "customer"}

\* what schema introspection says of one table
TableInfo(t) ==
    CASE t = "actor"    -> "Table 'actor' has columns: actor_id, first_name, last_name"
      [] t = "film"     -> "Table 'film' has columns: film_id, title, release_year"
      [] t = "customer" -> "Table 'customer' has columns: customer_id, email"
      [] OTHER          -> "Table not found"

\* how a call to create_engine or SQLDatabase can end
ConnectOutcomes == {"ok", "ConnectionError"}

\* how query_engine.query can end: it returns a streaming response, or the
\* query engine raises
QueryOutcomes == {"ok", "ModelUnavailableError", "GenerationError", "QueryExecutionError"}

\* how one next() on the returned generator can end
PullOutcomes == {"fragment", "StopIteration", "error"}

\* the arguments the host framework passes to pipe
Questions == {"list some actors", "how many films are there"}
ModelIds  == {"text_to_sql_pipeline", "other_pipeline"}
Messages  == {<<>>, <<"an earlier question">>}
Bodies    == {"stream", "no-stream"}

(* -------------------------------- pipe --------------------------------- *)

Range(s) == {s[i] : i \in DOMAIN s}

RECURSIVE Flatten(_)
\* the concatenation of a sequence of sequences
Flatten(ss) == IF ss = <<>> THEN <<>> ELSE Head(ss) \o Flatten(Tail(ss))

Text(t) == [kind |-> "text", val |-> t]
Var(n)  == [kind |-> "var", val |-> n]

\* text_to_sql_prompt: the literal text and its three placeholders
TextToSqlPrompt ==
    << Text("Given an input question, first create a syntactically correct "),
       Var("dialect"),
       Text(" query to run, then look at the results of the query and return the answer. You can order the results by a relevant column to return the most interesting examples in the database. Unless the user specifies in the question a specific number of examples to obtain, "),
       Text("query for at most 5 results using the LIMIT clause"),
       Text(" as per Postgres. You can order the results to return the most informative data in the database. Never query for all the columns from a specific table, only ask for a few relevant columns given the question. You should use DISTINCT statements and avoid returning duplicates wherever possible. Pay attention to use only the column names that you can see in the schema description. Be careful to not query for columns that do not exist. Pay attention to which column is in which table. Also, qualify column names with the table name when needed. You are required to use the following format, each taking one line: Question: Question here SQLQuery: SQL Query to run SQLResult: Result of the SQLQuery Answer: Final answer here Only use tables listed below."),
       Var("schema"),
       Text("Question: "),
       Var("query_str"),
       Text("SQLQuery: ") >>

\* PromptTemplate(text_to_sql_prompt)
PromptTemplate(t) == [template |-> t]

\* the template formatted with its keyword arguments: each placeholder is
\* replaced by the text given for it
Format(tpl, args) ==
    Flatten([i \in DOMAIN tpl.template |->
                IF tpl.template[i].kind = "var"
                THEN args[tpl.template[i].val]
                ELSE <<tpl.template[i].val>>])

\* SQLDatabase with no include_tables: every table of the database is usable
SQLDatabaseAllTables(eng, include_tables, outcome) ==
    IF eng = NoEngine
    THEN [fault |-> "NullHandleFault", engine |-> eng, usable |-> {}]
    ELSE IF outcome # "ok"
    THEN [fault |-> outcome, engine |-> eng, usable |-> {}]
    ELSE [fault |-> None, engine |-> eng, usable |-> DbTables]

\* SQLDatabase(self.engine, include_tables=[...]): pipe hands it self.engine
\* unchecked, so with self.engine None the error is the one raised where the
\* absent handle is first used
SQLDatabase(eng, include_tables, outcome) ==
    IF eng = NoEngine
    THEN [fault |-> "NullHandleFault", engine |-> eng, usable |-> {}]
    ELSE IF outcome # "ok"
    THEN [fault |-> outcome, engine |-> eng, usable |-> {}]
    ELSE [fault |-> None, engine |-> eng, usable |-> Range(include_tables)]

\* Ollama(model=..., base_url=..., request_timeout=180.0, context_window=30000)
Ollama(v) ==
    [model |-> v.TEXT_TO_SQL_MODEL, base_url |-> v.OLLAMA_HOST,
     request_timeout |-> 180, context_window |-> 30000]

\* NLSQLTableQueryEngine(sql_database=, tables=, llm=, embed_model="local",
\* text_to_sql_prompt=, streaming=True)
NLSQLTableQueryEngine(sql_database, tables, llm, text_to_sql_prompt) ==
    [sql_database |-> sql_database, tables |-> tables, llm |-> llm,
     embed_model |-> "local", text_to_sql_prompt |-> text_to_sql_prompt,
     streaming |-> TRUE]

\* the schema text of the query engine's tables
TableContext(qe) == [i \in DOMAIN qe.tables |-> TableInfo(qe.tables[i])]

\* what pipe would pass were the conversation so far added to the question
QueryArgWithHistory(user_message, model_id, messages, body) ==
    IF messages = <<>> THEN user_message ELSE messages[1]

\* the one argument pipe passes to query_engine.query
QueryArg(user_message, model_id, messages, body) == user_message

\* query_engine.query(query_str): the prompt the engine renders and how the
\* call ends
Query(qe, query_str, outcome) ==
    [prompt |-> Format(qe.text_to_sql_prompt,
                       [dialect   |-> <<Dialect(qe.sql_database.engine)>>,
                        schema    |-> TableContext(qe),
                        query_str |-> <<query_str>>]),
     fault  |-> IF outcome = "ok" THEN None ELSE outcome]

NoCalls == [SQLDatabase |-> 0, Ollama |-> 0, NLSQLTableQueryEngine |-> 0, query |-> 0]

\* a pipe that catches a failed query and asks once more
RunPipeRetrying(eng, v, user_message, model_id, messages, body, bindOutcome, queryOutcome) ==
    LET sql_database == SQLDatabase(eng, <<v.DB_TABLE>>, bindOutcome)
        llm == Ollama(v)
        text_to_sql_template == PromptTemplate(TextToSqlPrompt)
        query_engine == NLSQLTableQueryEngine(sql_database, <<v.DB_TABLE>>, llm,
                                              text_to_sql_template)
        response == Query(query_engine,
                          QueryArg(user_message, model_id, messages, body),
                          queryOutcome)
        base == [question |-> user_message, engine |-> eng, tables |-> {},
                 llm |-> llm, template |-> text_to_sql_template.template,
                 prompt |-> <<>>, calls |-> NoCalls, fault |-> None,
                 raised |-> None, stream |-> "none", pulled |-> <<>>]
    IN  IF sql_database.fault # None
        THEN [base EXCEPT !.calls = [NoCalls EXCEPT !.SQLDatabase = 1],
                          !.fault = sql_database.fault,
                          !.raised = sql_database.fault]
        ELSE [base EXCEPT !.tables = sql_database.usable,
                          !.prompt = response.prompt,
                          !.calls = [SQLDatabase |-> 1, Ollama |-> 1,
                                     NLSQLTableQueryEngine |-> 1,
                                     query |-> IF response.fault # None THEN 2 ELSE 1],
                          !.fault = response.fault,
                          !.stream = "open"]

\* pipe(user_message, model_id, messages, body), as the record of the call:
\* what it bound and rendered, the collaborator calls it made, the exception
\* a collaborator raised (fault), the exception pipe raised (raised), and the
\* generator it returned
RunPipe(eng, v, user_message, model_id, messages, body, bindOutcome, queryOutcome) ==
    LET sql_database == SQLDatabase(eng, <<v.DB_TABLE>>, bindOutcome)
        llm == Ollama(v)
        text_to_sql_template == PromptTemplate(TextToSqlPrompt)
        query_engine == NLSQLTableQueryEngine(sql_database, <<v.DB_TABLE>>, llm,
                                              text_to_sql_template)
        response == Query(query_engine,
                          QueryArg(user_message, model_id, messages, body),
                          queryOutcome)
        base == [question |-> user_message, engine |-> eng, tables |-> {},
                 llm |-> llm, template |-> text_to_sql_template.template,
                 prompt |-> <<>>, calls |-> NoCalls, fault |-> None,
                 raised |-> None, stream |-> "none", pulled |-> <<>>]
    IN  IF sql_database.fault # None
        THEN [base EXCEPT !.calls = [NoCalls EXCEPT !.SQLDatabase = 1],
                          !.fault = sql_database.fault,
                          !.raised = sql_database.fault]
        ELSE [base EXCEPT !.tables = sql_database.usable,
                          !.prompt = response.prompt,
                          !.calls = [SQLDatabase |-> 1, Ollama |-> 1,
                                     NLSQLTableQueryEngine |-> 1, query |-> 1],
                          !.fault = response.fault,
                          !.raised = response.fault,
                          !.stream = IF response.fault = None THEN "open" ELSE "none"]

(* ----------------------------- generator ------------------------------- *)

\* a generator that starts over once it has finished
GeneratorNextReplaying(r, outcome) ==
    IF r.stream = "open"
    THEN CASE outcome = "fragment" ->
                  [r EXCEPT !.pulled = Append(r.pulled, Len(r.pulled) + 1)]
           [] outcome = "StopIteration" -> [r EXCEPT !.stream = "exhausted"]
           [] OTHER -> [r EXCEPT !.stream = "failed"]
    ELSE [r EXCEPT !.stream = "open", !.pulled = Append(r.pulled, 1)]

\* one next() on response.response_gen: an open generator yields its next
\* fragment, finishes, or raises what the backend raised; a finished one (it
\* returned or it raised) only raises StopIteration and yields nothing
GeneratorNext(r, outcome) ==
    IF r.stream = "open"
    THEN CASE outcome = "fragment" ->
                  [r EXCEPT !.pulled = Append(r.pulled, Len(r.pulled) + 1)]
           [] outcome = "StopIteration" -> [r EXCEPT !.stream = "exhausted"]
           [] OTHER -> [r EXCEPT !.stream = "failed"]
    ELSE r

(* ------------------------------- actions ------------------------------- *)

\* an on_shutdown that disposes of the engine
OnShutdownDisposing ==
    /\ engine' = NoEngine
    /\ UNCHANGED <<env, valves, nlsql_response, handles, startup, requests>>

\* init_db_connection with the configured port in the connection string
InitDbConnectionWithPort(v, n, outcome) ==
    IF outcome = "ok"
    THEN [fault |-> None,
          engine |-> [id |-> n,
                      url |-> <<"postgresql+psycopg2://", v.DB_USER, ":",
                                v.DB_PASSWORD, "@", v.DB_HOST, ":", v.DB_PORT,
                                "/", v.DB_DATABASE>>]]
    ELSE [fault |-> outcome, engine |-> NoEngine]

\* init_db_connection: create_engine on the connection string; n names the
\* engine object it returns
InitDbConnection(v, n, outcome) ==
    IF outcome = "ok"
    THEN [fault |-> None, engine |-> [id |-> n, url |-> ConnString(v)]]
    ELSE [fault |-> outcome, engine |-> NoEngine]

\* on_startup: self.engine is assigned only if create_engine returns
OnStartup(outcome) ==
    LET made == InitDbConnection(valves, handles + 1, outcome)
    IN  /\ outcome = "ok" => handles < MaxStartups
        /\ engine' = IF made.fault = None THEN made.engine ELSE engine
        /\ handles' = IF made.fault = None THEN handles + 1 ELSE handles
        /\ startup' = [calls |-> 1, fault |-> made.fault, raised |-> made.fault]
        /\ UNCHANGED <<env, valves, nlsql_response, requests>>

\* on_shutdown: pass
OnShutdown == UNCHANGED vars

\* pipe, called by the host framework
Pipe(user_message, model_id, messages, body, bindOutcome, queryOutcome) ==
    /\ Len(requests) < MaxRequests
    /\ requests' = Append(requests,
                          RunPipe(engine, valves, user_message, model_id,
                                  messages, body, bindOutcome, queryOutcome))
    /\ UNCHANGED <<env, valves, engine, nlsql_response, handles, startup>>

\* the caller's next() on the generator the i-th pipe call returned
Pull(i, outcome) ==
    /\ i \in DOMAIN requests
    /\ requests[i].stream # "none"
    /\ outcome = "fragment" => Len(requests[i].pulled) < MaxFragments
    /\ requests' = [requests EXCEPT ![i] = GeneratorNext(requests[i], outcome)]
    /\ UNCHANGED <<env, valves, engine, nlsql_response, handles, startup>>

\* a pipe call with a question of Q, any other arguments, any outcome of its
\* collaborators
PipeCall(Q) ==
    \E q \in Q, m \in ModelIds, ms \in Messages, b \in Bodies,
       bo \in ConnectOutcomes, qo \in QueryOutcomes : Pipe(q, m, ms, b, bo, qo)

PullCall(i) == \E o \in PullOutcomes : Pull(i, o)

(* ---------------------------- specifications --------------------------- *)

AllUnset == [v \in EnvVars |-> Unset]

\* a value some deployment sets each variable to
Custom(v) ==
    CASE v = "DB_HOST"           -> "db.internal"
      [] v = "DB_PORT"           -> "6543"
      [] v = "DB_USER"           -> "reader"
      [] v = "DB_PASSWORD"       -> "s3cret"
      [] v = "DB_DATABASE"       -> "dvdrental"
      [] v = "DB_TABLE"          -> "film"
      [] v = "OLLAMA_HOST"       -> "http://ollama:11434"
      [] v = "TEXT_TO_SQL_MODEL" -> "phi3:latest"

\* the ports a deployment sets DB_PORT to
Ports == {Custom("DB_PORT"), "5433"}

\* the environment that sets the variables of S, and DB_PORT to port
Environment(S, port) ==
    [v \in EnvVars |-> IF v \notin S THEN Unset
                       ELSE IF v = "DB_PORT" THEN port ELSE Custom(v)]

\* every combination of set and unset variables
Environments == {Environment(S, port) : S \in SUBSET EnvVars, port \in Ports}

\* the environments of the wiring runs: the table set or not
RequestEnvironments == {Environment(S, Custom("DB_PORT")) : S \in SUBSET {"DB_TABLE"}}

\* the object after __init__
Constructed(e) ==
    /\ env = e
    /\ valves = Valves(ValvesArgs(e))
    /\ engine = NoEngine
    /\ nlsql_response = ""
    /\ handles = 0
    /\ startup = [calls |-> 0, fault |-> None, raised |-> None]
    /\ requests = <<>>

\* the whole machine: the hooks and the callers' pulls, under the default
\* configuration and one question
Init == Constructed(AllUnset)

Next ==
    \/ \E o \in ConnectOutcomes : OnStartup(o)
    \/ OnShutdown
    \/ PipeCall({"list some actors"})
    \/ \E i \in 1..MaxRequests : PullCall(i)

Spec == Init /\ [][Next]_vars

\* the caller of a generator goes on pulling it
FairSpec == Spec /\ \A i \in 1..MaxRequests : WF_vars(PullCall(i))

\* the hooks alone, under both table settings and every question
WiringInit == \E e \in RequestEnvironments : Constructed(e)

WiringNext ==
    \/ \E o \in ConnectOutcomes : OnStartup(o)
    \/ OnShutdown
    \/ PipeCall(Questions)

WiringSpec == WiringInit /\ [][WiringNext]_vars

\* construction and startup under every environment
ConfigInit == \E e \in Environments : Constructed(e)

ConfigNext ==
    \/ \E o \in ConnectOutcomes : OnStartup(o)
    \/ OnShutdown

ConfigSpec == ConfigInit /\ [][ConfigNext]_vars

(* ------------------------------- claims -------------------------------- *)

Rendered(r) == r.calls.query = 1

Closed(r) == r.stream \in {"exhausted", "failed"}

\* C1: a pipe call made while self.engine is still None fails with an error
\* that names the missing initialisation, not with the fault raised where the
\* absent handle is used.
C1_UninitialisedPipeIsAttributed ==
    \A i \in DOMAIN requests :
        requests[i].engine = NoEngine => requests[i].raised = "NotInitialisedError"

\* C2: once on_startup has stored the engine, no pipe call and no on_shutdown
\* replaces or clears it, and every pipe call binds its SQLDatabase to the
\* stored engine.
C2_HandleKeptAndReused ==
    [][(engine # NoEngine /\ (Len(requests') = Len(requests) + 1 \/ OnShutdown)) =>
          /\ engine' = engine
          /\ \A i \in DOMAIN requests' :
                i \notin DOMAIN requests => requests'[i].engine = engine]_vars

C2_Witness ==
    /\ engine # NoEngine
    /\ Len(requests) = 2
    /\ \A i \in DOMAIN requests : requests[i].engine = engine /\ Rendered(requests[i])

\* C3: nothing is retried or recovered: on_startup calls create_engine once and
\* pipe calls each collaborator at most once; what a collaborator raises is
\* what the hook raises, no later call follows it, and a pipe call ends either
\* with a generator or with that error.
C3_NoRetryNoRecovery ==
    /\ startup.calls <= 1
    /\ startup.raised = startup.fault
    /\ \A i \in DOMAIN requests :
          LET r == requests[i]
          IN  /\ \A c \in DOMAIN r.calls : r.calls[c] <= 1
              /\ r.calls.SQLDatabase = 1
              /\ r.raised = r.fault
              /\ r.fault # None => r.stream = "none" /\ r.pulled = <<>>
              /\ r.fault = None => r.stream # "none" /\ Rendered(r)
              /\ ~Rendered(r) => r.fault # None /\ r.calls.NLSQLTableQueryEngine = 0

C3_Witness ==
    /\ startup.raised = "ConnectionError"
    /\ \E i, j \in DOMAIN requests :
          /\ requests[i].raised = "ModelUnavailableError"
          /\ requests[j].stream = "failed"

C6_NoCrossRequestMemory ==
    \A i, j \in DOMAIN requests :
        LET a == requests[i]
            b == requests[j]
        IN  (Rendered(a) /\ Rendered(b)) =>
                /\ a.tables = b.tables
                /\ a.llm = b.llm
                /\ a.template = b.template
                /\ (a.engine = b.engine /\ a.question = b.question) => a.prompt = b.prompt
                /\ a.calls.NLSQLTableQueryEngine = 1
                /\ nlsql_response = ""

C6_Witness ==
    /\ Len(requests) = 2
    /\ requests[1].question = requests[2].question
    /\ requests[1].raised = "QueryExecutionError"
    /\ requests[2].stream = "open"
    /\ requests[2].engine = requests[1].engine
    /\ requests[2].prompt # <<>>

\* the defaults the configuration falls back to
C7_Default ==
    [DB_HOST           |-> "http://host.docker.internal",
     DB_PORT           |-> "5432",
     DB_USER           |-> "postgres",
     DB_PASSWORD       |-> "qwer5678",
     DB_DATABASE       |-> "testdb",
     DB_TABLE          |-> "actor",
     OLLAMA_HOST       |-> "http://host.docker.internal:11434",
     TEXT_TO_SQL_MODEL |-> "llama2:latest"]

\* C7: whatever variables are set, the configuration has every field, each
\* the variable's value when it is set and its fixed default when it is not.
C7_EnvOrDefault ==
    /\ DOMAIN valves = EnvVars
    /\ \A v \in EnvVars :
          valves[v] = IF env[v] # Unset THEN env[v] ELSE C7_Default[v]

C7_Witness ==
    /\ env["DB_PORT"] = "5433"
    /\ env["DB_TABLE"] = "film"
    /\ env["DB_USER"] = Unset
    /\ env["OLLAMA_HOST"] = Unset
    /\ valves["DB_USER"] = "postgres"
    /\ valves["DB_TABLE"] = "film"

\* C8: the prompt a pipe call renders holds the question, the dialect name,
\* the at-most-5-results instruction and the schema of the configured table
\* and of no other table; the tables bound for the call are the configured one.
C8_PromptContents ==
    \A i \in DOMAIN requests :
        LET r == requests[i]
        IN  Rendered(r) =>
                /\ r.question \in Range(r.prompt)
                /\ "postgresql" \in Range(r.prompt)
                /\ "query for at most 5 results using the LIMIT clause" \in Range(r.prompt)
                /\ r.tables = {valves.DB_TABLE}
                /\ {t \in DbTables : TableInfo(t) \in Range(r.prompt)} = {valves.DB_TABLE}

C8_Witness ==
    \E i \in DOMAIN requests :
        /\ Rendered(requests[i])
        /\ valves.DB_TABLE = "film"
        /\ TableInfo("film") \in Range(requests[i].prompt)

\* C10: the connection string takes user, password, host and database from
\* the configuration and has port 5432 whatever DB_PORT is: the engine made
\* from a configuration that differs only in DB_PORT is the same.
C10_PortIsLiteral ==
    engine # NoEngine =>
        /\ engine.url[2] = valves.DB_USER
        /\ engine.url[4] = valves.DB_PASSWORD
        /\ engine.url[6] = valves.DB_HOST
        /\ engine.url[7] = ":5432/"
        /\ engine.url[8] = valves.DB_DATABASE
        /\ Len(engine.url) = 8
        /\ \A p \in Ports \cup {"5432"} :
              InitDbConnection([valves EXCEPT !.DB_PORT = p], engine.id, "ok").engine
                  = engine

C10_Witness ==
    /\ engine # NoEngine
    /\ valves.DB_PORT = "6543"
    /\ valves.DB_HOST = "db.internal"

====
